---- MODULE Spec2Model ----
(***************************************************************************)
(* Model of the two-stage (interim / final) speech-to-text streaming core: *)
(* PriorityScheduler (src/scheduler/priority.py), DecodeWorker             *)
(* (src/asr/workers.py), BackpressureManager and ConnectionThrottle        *)
(* (src/runtime/backpressure.py) and RuntimeState (src/runtime/state.py).  *)
(*                                                                         *)
(* Everything runs on one asyncio event loop, so every code path between   *)
(* two awaits is one atomic action.  The decode itself runs in the thread  *)
(* pool: a worker is suspended between dispatching a job and the step that *)
(* handles its result.                                                     *)
(*                                                                         *)
(* Spec follows the scheduling of the jobs of several connections, whose   *)
(* sessions enqueue at will.  SessionSpec follows one session in detail    *)
(* (WebSocketHandler in src/server/routes.py, ConnectionAudioState and     *)
(* AudioRingBuffer in src/audio/buffer.py, SilenceTracker in               *)
(* src/audio/vad_webrtc.py) together with the text of every result.        *)
(* BackpressureSpec follows the backpressure controller alone, under the   *)
(* default configuration, for every pair of queue depths.                  *)
(* StreamSpec follows the message loop of one session that receives a      *)
(* fixed speech / silence signal in chunks of several sizes, with the      *)
(* answers of the voice activity detector and the signals of the           *)
(* transport; StreamLiveSpec adds the fairness of the message loop.        *)
(* SteadySpec follows the scheduler and the two workers under connections  *)
(* that keep submitting, without histories, for behaviours without end.    *)
(* RingSpec follows a small AudioRingBuffer sample by sample under every   *)
(* sequence of appends and marks.  TailSpec follows the backpressure       *)
(* controller for every base tail that the configuration allows.           *)
(***************************************************************************)
EXTENDS Integers, Sequences, FiniteSets, TLC

\* ---------------------------------------------------------------- bounds
MaxConns == 2      \* connection ids that can be generated
MaxJobs == 3       \* decode jobs that can be created
MaxTime == 3       \* last value of the wall clock
MaxFinalDepth == 13    \* largest final queue depth handed to update alone
MaxInterimDepth == 42  \* largest interim queue depth handed to update alone
MaxSessions == 1   \* connections opened where the session is followed in detail
MaxChunks == 4     \* audio messages received by a session
MaxErrors == 1     \* error messages sent to a session's client
RingRate == 2      \* sample rate of the ring buffer followed sample by sample
RingSeconds == 2   \* its duration in seconds (it holds RingRate * RingSeconds samples)
MaxChunkLen == 7   \* longest chunk handed to its append
MaxHanded == 16    \* samples handed to its append in all

\* ------------------------------------------------------------- constants
F_FINAL_BURST == 2
F_INTERIM_BURST == 3
VAD_END_SILENCE_MS == 500
SAMPLE_RATE == 16000
RING_BUFFER_SECONDS == 30
TickMs == 250      \* milliseconds per unit of the modelled wall clock
StartTime == 2     \* the wall clock at startup (time.time() is far from 0.0)
ChunkSamples == 4000   \* samples per audio message (250 ms at 16 kHz)
ASR_LANGUAGE == "auto"
FRAME_DURATION_MS == 30

Conns == 1..MaxConns
JobIds == 1..MaxJobs
\* ConnectionThrottle.jitter_ms; at the clock's granularity every jitter of
\* [-30, 30] ms gives the same throttle decisions
JitterVals == {0}
\* texts the decoder can return, as sequences of characters
Texts ==
  {<<"h", "e", "l", "l", "o", " ", "w", "o", "r", "l", "d">>,
   <<"h", "e", "l", "l", "o", " ", "w", "o", "r", "l", "d", "!">>}

VARIABLES
  scheduler,            \* PriorityScheduler: queues, tracking dicts, bursts, stats
  current_job,          \* DecodeWorker.current_job of worker_final / worker_interim
  backpressure,         \* BackpressureManager fields
  connections,          \* keys of RuntimeState.connections
  websockets,           \* keys of RuntimeState.websockets
  connection_throttles, \* RuntimeState.connection_throttles
  send_tasks,           \* tasks created by asyncio.create_task(_send_*_message)
  now,                  \* time.time()
  conn_ids,             \* number of connection ids generated so far
  created,              \* history: every job accepted by the scheduler, by job_id
  dispatched,           \* history: job ids in dispatch order, per worker
  coalesced,            \* history: job ids removed from q_interim by coalescing
  completed,            \* history: job ids whose _process_job has finished
  out,                  \* history: messages handed to each connection's websocket
  depths,               \* queue depths read by the last round of the monitor loop
  conn_state,           \* values of RuntimeState.connections (ConnectionAudioState)
  silence_trackers,     \* RuntimeState.silence_trackers
  results,              \* history: what the decoder returned or raised, by job_id
  wire,                 \* history: the messages sent on each websocket, in order
  transport,            \* what websocket.receive() of each connection does next
  language,             \* WebSocketHandler.language of each connection's handler
  started,              \* history: connections whose start message was handled
  ring,                 \* an AudioRingBuffer with the samples it holds
  ring_log              \* history: the samples handed to and taken by ring

vars == <<scheduler, current_job, backpressure, connections, websockets,
          connection_throttles, send_tasks, now, conn_ids, created,
          dispatched, coalesced, completed, out, depths, conn_state,
          silence_trackers, results, wire, transport, language, started,
          ring, ring_log>>

\* ------------------------------------------------------------ data model
NoJob == [job_id |-> 0, job_type |-> "none", conn_id |-> 0, created_at |-> 0]

DecodeJob(id, type, conn, t) ==
  [job_id |-> id, job_type |-> type, conn_id |-> conn, created_at |-> t]

\* a DecodeJob together with its audio_data, the window [first, first + len)
\* of the connection's stream
DecodeJobWithAudio(id, type, conn, t, audio) ==
  [job_id |-> id, job_type |-> type, conn_id |-> conn, created_at |-> t,
   audio |-> audio]

NoThrottle == [effective_cooldown_ms |-> 0, last_interim_time |-> -1]

Max(a, b) == IF a >= b THEN a ELSE b

\* deque.remove(x): drop the first element equal to x
RECURSIVE Remove(_, _)
Remove(q, x) ==
  IF q = <<>> THEN <<>>
  ELSE IF Head(q) = x THEN Tail(q)
  ELSE <<Head(q)>> \o Remove(Tail(q), x)

Contains(q, x) == \E i \in 1..Len(q) : q[i] = x

\* --------------------------------------------------- PriorityScheduler
SchedulerInit ==
  [q_final |-> <<>>,
   q_interim |-> <<>>,
   interim_queued_by_conn |-> [c \in Conns |-> NoJob],
   inflight_by_conn |-> [c \in Conns |-> NoJob],
   f_final_burst |-> F_FINAL_BURST,
   f_interim_burst |-> F_INTERIM_BURST,
   stats |-> [total_enqueued_finals |-> 0,
              total_enqueued_interims |-> 0,
              total_dequeued_finals |-> 0,
              total_dequeued_interims |-> 0,
              total_coalesced |-> 0]]

\* variant: a final is refused while a job of its connection is in flight
enqueue_final_unless_inflight(S, job) ==
  IF S.inflight_by_conn[job.conn_id] # NoJob
  THEN S
  ELSE [S EXCEPT !.q_final = Append(@, job),
                 !.stats.total_enqueued_finals = @ + 1]

enqueue_final(S, job) ==
  [S EXCEPT !.q_final = Append(@, job),
            !.stats.total_enqueued_finals = @ + 1]

\* the rejection test of enqueue_interim
interim_in_flight(S, c) ==
  /\ S.inflight_by_conn[c] # NoJob
  /\ S.inflight_by_conn[c].job_type = "interim"

\* variant: the replaced job stays in the queue
coalesce_keep(q, old_job) == q

\* the queue after the coalescing branch of enqueue_interim
coalesce(q, old_job) ==
  IF old_job # NoJob /\ Contains(q, old_job) THEN Remove(q, old_job) ELSE q

\* variant: a coalescing enqueue is not counted in total_coalesced
enqueue_interim_uncounted(S, job) ==
  LET c == job.conn_id
      old_job == S.interim_queued_by_conn[c]
      hit == old_job # NoJob /\ Contains(S.q_interim, old_job)
  IN IF interim_in_flight(S, c)
     THEN [sched |-> S, ok |-> FALSE, removed |-> NoJob]
     ELSE [sched |-> [S EXCEPT
                       !.q_interim = Append(coalesce(@, old_job), job),
                       !.interim_queued_by_conn[c] = job,
                       !.stats.total_enqueued_interims = @ + 1],
           ok |-> TRUE,
           removed |-> IF hit THEN old_job ELSE NoJob]

\* variant: no coalescing branch, the new job is always appended
enqueue_interim_append(S, job) ==
  LET c == job.conn_id
  IN IF interim_in_flight(S, c)
     THEN [sched |-> S, ok |-> FALSE, removed |-> NoJob]
     ELSE [sched |-> [S EXCEPT
                       !.q_interim = Append(@, job),
                       !.interim_queued_by_conn[c] = job,
                       !.stats.total_enqueued_interims = @ + 1],
           ok |-> TRUE,
           removed |-> NoJob]

\* variant: coalescing overwrites the queued job in its place in the queue
enqueue_interim_in_place(S, job) ==
  LET c == job.conn_id
      old_job == S.interim_queued_by_conn[c]
      hit == old_job # NoJob /\ Contains(S.q_interim, old_job)
  IN IF interim_in_flight(S, c)
     THEN [sched |-> S, ok |-> FALSE, removed |-> NoJob]
     ELSE [sched |-> [S EXCEPT
                       !.q_interim = IF hit
                                     THEN [i \in 1..Len(@) |->
                                             IF @[i] = old_job THEN job
                                             ELSE @[i]]
                                     ELSE Append(@, job),
                       !.interim_queued_by_conn[c] = job,
                       !.stats.total_coalesced = IF hit THEN @ + 1 ELSE @,
                       !.stats.total_enqueued_interims = @ + 1],
           ok |-> TRUE,
           removed |-> IF hit THEN old_job ELSE NoJob]

\* result: the scheduler afterwards, the return value and the job coalesced away
enqueue_interim(S, job) ==
  LET c == job.conn_id
      old_job == S.interim_queued_by_conn[c]
      hit == old_job # NoJob /\ Contains(S.q_interim, old_job)
  IN IF interim_in_flight(S, c)
     THEN [sched |-> S, ok |-> FALSE, removed |-> NoJob]
     ELSE [sched |-> [S EXCEPT
                       !.q_interim = Append(coalesce(@, old_job), job),
                       !.interim_queued_by_conn[c] = job,
                       !.stats.total_coalesced = IF hit THEN @ + 1 ELSE @,
                       !.stats.total_enqueued_interims = @ + 1],
           ok |-> TRUE,
           removed |-> IF hit THEN old_job ELSE NoJob]

\* variant: the entry of the in-flight tracking is left in place
mark_job_complete_kept(S, job) == S

mark_job_complete(S, job) ==
  [S EXCEPT !.inflight_by_conn[job.conn_id] = NoJob]

set_burst_limits(S, f_final_burst, f_interim_burst) ==
  [S EXCEPT !.f_final_burst = f_final_burst,
            !.f_interim_burst = f_interim_burst]

\* ---------------------------------------------------------- DecodeWorker
\* variant: finals wait until the interim queue is empty
final_available_after_interims(S) ==
  Len(S.q_final) > 0 /\ Len(S.q_interim) = 0

\* the test under which _get_job_for_type takes a final
final_available(S) == Len(S.q_final) > 0

\* the test under which _get_job_for_type takes an interim
interim_available(S) == Len(S.q_interim) > 0 /\ S.f_interim_burst > 0

\* variant: deque.pop(), the newest job first
pop(q) == [job |-> q[Len(q)], rest |-> SubSeq(q, 1, Len(q) - 1)]

\* deque.popleft()
popleft(q) == [job |-> Head(q), rest |-> Tail(q)]

\* variant: the dequeue of a final is not counted in the statistics
get_job_for_type_uncounted(S, job_type) ==
  IF job_type = "final"
  THEN IF final_available(S)
       THEN LET p == popleft(S.q_final)
            IN [sched |-> [S EXCEPT
                             !.q_final = p.rest,
                             !.inflight_by_conn[p.job.conn_id] = p.job],
                job |-> p.job]
       ELSE [sched |-> S, job |-> NoJob]
  ELSE IF interim_available(S)
       THEN LET p == popleft(S.q_interim)
            IN [sched |-> [S EXCEPT
                             !.q_interim = p.rest,
                             !.stats.total_dequeued_interims = @ + 1,
                             !.inflight_by_conn[p.job.conn_id] = p.job,
                             !.interim_queued_by_conn[p.job.conn_id] = NoJob],
                job |-> p.job]
       ELSE [sched |-> S, job |-> NoJob]

\* result: the scheduler afterwards and the job taken (NoJob for None)
get_job_for_type(S, job_type) ==
  IF job_type = "final"
  THEN IF final_available(S)
       THEN LET p == popleft(S.q_final)
            IN [sched |-> [S EXCEPT
                             !.q_final = p.rest,
                             !.stats.total_dequeued_finals = @ + 1,
                             !.inflight_by_conn[p.job.conn_id] = p.job],
                job |-> p.job]
       ELSE [sched |-> S, job |-> NoJob]
  ELSE IF interim_available(S)
       THEN LET p == popleft(S.q_interim)
            IN [sched |-> [S EXCEPT
                             !.q_interim = p.rest,
                             !.stats.total_dequeued_interims = @ + 1,
                             !.inflight_by_conn[p.job.conn_id] = p.job,
                             !.interim_queued_by_conn[p.job.conn_id] = NoJob],
                job |-> p.job]
       ELSE [sched |-> S, job |-> NoJob]

\* --------------------------------------------------- BackpressureManager
\* watermarks and base values read from the configuration at construction:
\* a deployment with FINAL_HI=1 FINAL_CRIT=2 INTERIM_HI=1 INTERIM_CRIT=2 in
\* the environment (every level is then reached with a few queued jobs) and
\* the default INTERIM_COOLDOWN_MS and TAIL_SECONDS
Watermarks ==
  [final_hi |-> 1, final_crit |-> 2, interim_hi |-> 1, interim_crit |-> 2,
   interim_cooldown_ms |-> 220, tail_ms |-> 7000]

\* base_tail_seconds / current_tail_seconds are kept in milliseconds
BackpressureManager(cfg) ==
  [final_hi |-> cfg.final_hi,
   final_crit |-> cfg.final_crit,
   interim_hi |-> cfg.interim_hi,
   interim_crit |-> cfg.interim_crit,
   level |-> "normal",
   base_cooldown_ms |-> cfg.interim_cooldown_ms,
   base_tail_ms |-> cfg.tail_ms,
   current_cooldown_ms |-> cfg.interim_cooldown_ms,
   current_tail_ms |-> cfg.tail_ms,
   interims_paused |-> FALSE]

\* variant: the interim queue depth is not looked at
bp_level_final_only(B, q_final_len, q_interim_len) ==
  IF q_final_len >= B.final_crit
  THEN "critical"
  ELSE IF q_final_len >= B.final_hi
       THEN "high"
       ELSE "normal"

bp_level(B, q_final_len, q_interim_len) ==
  IF q_final_len >= B.final_crit \/ q_interim_len >= B.interim_crit
  THEN "critical"
  ELSE IF q_final_len >= B.final_hi \/ q_interim_len >= B.interim_hi
       THEN "high"
       ELSE "normal"

\* variant: interims are paused whenever the level is Critical
update_pause_at_critical(B, q_final_len, q_interim_len) ==
  LET lv == bp_level(B, q_final_len, q_interim_len)
  IN IF lv = "critical"
     THEN [B EXCEPT !.level = lv,
                    !.current_cooldown_ms = B.base_cooldown_ms + 250,
                    !.current_tail_ms = Max(1500, B.base_tail_ms \div 4),
                    !.interims_paused = TRUE]
     ELSE IF lv = "high"
     THEN [B EXCEPT !.level = lv,
                    !.current_cooldown_ms = B.base_cooldown_ms + 150,
                    !.current_tail_ms = Max(3000, B.base_tail_ms \div 2),
                    !.interims_paused = (q_final_len >= B.final_hi)]
     ELSE [B EXCEPT !.level = lv,
                    !.current_cooldown_ms = B.base_cooldown_ms,
                    !.current_tail_ms = B.base_tail_ms,
                    !.interims_paused = FALSE]

\* variant: the cooldown increments of High and Critical are exchanged
update_cooldown_swapped(B, q_final_len, q_interim_len) ==
  LET lv == bp_level(B, q_final_len, q_interim_len)
  IN IF lv = "critical"
     THEN [B EXCEPT !.level = lv,
                    !.current_cooldown_ms = B.base_cooldown_ms + 150,
                    !.current_tail_ms = Max(1500, B.base_tail_ms \div 4),
                    !.interims_paused = (q_final_len >= B.final_crit)]
     ELSE IF lv = "high"
     THEN [B EXCEPT !.level = lv,
                    !.current_cooldown_ms = B.base_cooldown_ms + 250,
                    !.current_tail_ms = Max(3000, B.base_tail_ms \div 2),
                    !.interims_paused = (q_final_len >= B.final_hi)]
     ELSE [B EXCEPT !.level = lv,
                    !.current_cooldown_ms = B.base_cooldown_ms,
                    !.current_tail_ms = B.base_tail_ms,
                    !.interims_paused = FALSE]

update(B, q_final_len, q_interim_len) ==
  LET lv == bp_level(B, q_final_len, q_interim_len)
  IN IF lv = "critical"
     THEN [B EXCEPT !.level = lv,
                    !.current_cooldown_ms = B.base_cooldown_ms + 250,
                    !.current_tail_ms = Max(1500, B.base_tail_ms \div 4),
                    !.interims_paused = (q_final_len >= B.final_crit)]
     ELSE IF lv = "high"
     THEN [B EXCEPT !.level = lv,
                    !.current_cooldown_ms = B.base_cooldown_ms + 150,
                    !.current_tail_ms = Max(3000, B.base_tail_ms \div 2),
                    !.interims_paused = (q_final_len >= B.final_hi)]
     ELSE [B EXCEPT !.level = lv,
                    !.current_cooldown_ms = B.base_cooldown_ms,
                    !.current_tail_ms = B.base_tail_ms,
                    !.interims_paused = FALSE]

\* variant: the final burst is reduced with the level like the interim burst
get_burst_limits_final_scaled(B) ==
  [f_final_burst |->
     IF B.level = "critical" THEN Max(1, F_FINAL_BURST \div 3)
     ELSE IF B.level = "high" THEN Max(1, F_FINAL_BURST \div 2)
     ELSE F_FINAL_BURST,
   f_interim_burst |->
     IF B.interims_paused THEN 0
     ELSE IF B.level = "critical" THEN Max(1, F_INTERIM_BURST \div 3)
     ELSE IF B.level = "high" THEN Max(1, F_INTERIM_BURST \div 2)
     ELSE F_INTERIM_BURST]

\* variant: the pause is not turned into a burst limit of 0
get_burst_limits_unpaused(B) ==
  [f_final_burst |-> F_FINAL_BURST,
   f_interim_burst |->
     IF B.level = "critical" THEN Max(1, F_INTERIM_BURST \div 3)
     ELSE IF B.level = "high" THEN Max(1, F_INTERIM_BURST \div 2)
     ELSE F_INTERIM_BURST]

get_burst_limits(B) ==
  [f_final_burst |-> F_FINAL_BURST,
   f_interim_burst |->
     IF B.interims_paused THEN 0
     ELSE IF B.level = "critical" THEN Max(1, F_INTERIM_BURST \div 3)
     ELSE IF B.level = "high" THEN Max(1, F_INTERIM_BURST \div 2)
     ELSE F_INTERIM_BURST]

\* ---------------------------------------------------- ConnectionThrottle
ConnectionThrottle(base_cooldown_ms, jitter_ms) ==
  [effective_cooldown_ms |-> base_cooldown_ms + jitter_ms,
   last_interim_time |-> 0]

should_allow_interim(T, current_cooldown_ms, t) ==
  LET elapsed_ms == (t - T.last_interim_time) * TickMs
      effective_cooldown == Max(T.effective_cooldown_ms, current_cooldown_ms)
  IN elapsed_ms >= effective_cooldown

mark_interim_sent(T, t) == [T EXCEPT !.last_interim_time = t]

\* ------------------------------------------------------ AudioRingBuffer
\* The positions of the ring buffer; the samples themselves are identified
\* by their index in the stream of the connection (the first sample ever
\* appended is sample 0), so a window of audio is [first, first + len).
AudioRingBuffer(sample_rate, max_duration_seconds) ==
  [max_samples |-> sample_rate * max_duration_seconds,
   write_pos |-> 0,
   total_samples_written |-> 0,
   utterance_start_pos |-> 0]

append(rb, num_samples) ==
  [rb EXCEPT !.write_pos = (@ + num_samples) % rb.max_samples,
             !.total_samples_written = @ + num_samples]

\* the slice from utterance_start_pos to write_pos, around the end of the
\* buffer when the start lies behind the write position
get_utterance(rb) ==
  LET n == IF rb.utterance_start_pos <= rb.write_pos
           THEN rb.write_pos - rb.utterance_start_pos
           ELSE (rb.max_samples - rb.utterance_start_pos) + rb.write_pos
  IN [first |-> rb.total_samples_written - n, len |-> n]

\* the last min(int(sample_rate * duration), written, max_samples) samples;
\* the duration is given in milliseconds
get_tail(rb, sample_rate, duration_ms) ==
  LET want == (sample_rate * duration_ms) \div 1000
      m == IF want <= rb.total_samples_written
           THEN want ELSE rb.total_samples_written
      n == IF m <= rb.max_samples THEN m ELSE rb.max_samples
  IN [first |-> rb.total_samples_written - n, len |-> n]

mark_utterance_start(rb) == [rb EXCEPT !.utterance_start_pos = rb.write_pos]

\* ------------------------------------- AudioRingBuffer, sample by sample
\* The same buffer with the numpy array it keeps: buffer[p] of the code is
\* buffer[p + 1] here, a sample is a number that identifies it, and the
\* array is filled with zeros at construction.
SampleBuffer(sample_rate, max_duration_seconds) ==
  [sample_rate |-> sample_rate,
   max_samples |-> sample_rate * max_duration_seconds,
   buffer |-> [p \in 1..(sample_rate * max_duration_seconds) |-> 0],
   write_pos |-> 0,
   total_samples_written |-> 0,
   utterance_start_pos |-> 0]

\* min(a, b, c)
Min3(a, b, c) ==
  IF a <= b /\ a <= c THEN a ELSE IF b <= c THEN b ELSE c

\* the slice array[a:b], for 0 <= a and b <= len(array)
slice(array, a, b) == SubSeq(array, a + 1, b)

\* array[a:a + len(audio)] = audio
assign(array, a, audio) ==
  [p \in 1..Len(array) |->
     IF a < p /\ p <= a + Len(audio) THEN audio[p - a] ELSE array[p]]

\* AudioRingBuffer.append with the samples. The assignment
\* buffer[:remaining] = audio[space_to_end:] raises ValueError when more
\* than max_samples samples remain (the slice on the left has max_samples
\* elements): the first part of the chunk has been written by then and the
\* positions are left as they were.
append_samples(rb, audio) ==
  LET num_samples == Len(audio)
      space_to_end == rb.max_samples - rb.write_pos
      remaining == num_samples - space_to_end
      moved == [rb EXCEPT
                  !.write_pos = (@ + num_samples) % rb.max_samples,
                  !.total_samples_written = @ + num_samples]
  IN IF num_samples <= space_to_end
     THEN [rb |-> [moved EXCEPT !.buffer = assign(@, rb.write_pos, audio)],
           raised |-> FALSE]
     ELSE LET to_end == assign(rb.buffer, rb.write_pos,
                               SubSeq(audio, 1, space_to_end))
          IN IF remaining > rb.max_samples
             THEN [rb |-> [rb EXCEPT !.buffer = to_end], raised |-> TRUE]
             ELSE [rb |-> [moved EXCEPT
                             !.buffer = assign(to_end, 0,
                                               SubSeq(audio, space_to_end + 1,
                                                      num_samples))],
                   raised |-> FALSE]

\* AudioRingBuffer.get_tail with the samples; the duration in milliseconds
get_tail_samples(rb, duration_ms) ==
  LET num_samples == Min3((rb.sample_rate * duration_ms) \div 1000,
                          rb.total_samples_written, rb.max_samples)
      start_pos == (rb.write_pos - num_samples) % rb.max_samples
  IN IF num_samples = 0
     THEN <<>>
     ELSE IF start_pos < rb.write_pos
          THEN slice(rb.buffer, start_pos, rb.write_pos)
          ELSE slice(rb.buffer, start_pos, rb.max_samples)
                 \o slice(rb.buffer, 0, rb.write_pos)

\* AudioRingBuffer.get_utterance with the samples
get_utterance_samples(rb) ==
  IF rb.utterance_start_pos <= rb.write_pos
  THEN slice(rb.buffer, rb.utterance_start_pos, rb.write_pos)
  ELSE slice(rb.buffer, rb.utterance_start_pos, rb.max_samples)
         \o slice(rb.buffer, 0, rb.write_pos)

\* ------------------------------------------------- ConnectionAudioState
\* the fields that are written and never read anywhere (last_audio_time,
\* utterance_start_time, interim_queued_or_inflight, detected_language) are
\* left out; a text is the sequence of its characters
ConnectionAudioState(sample_rate, max_duration_seconds) ==
  [ring_buffer |-> AudioRingBuffer(sample_rate, max_duration_seconds),
   in_utterance |-> FALSE,
   utterance_id |-> 0,
   last_interim_text |-> <<>>,
   last_interim_time |-> 0]

\* no entry in RuntimeState.connections
NoConnection == [in_utterance |-> FALSE]

start_utterance(cs) ==
  [cs EXCEPT !.in_utterance = TRUE,
             !.utterance_id = @ + 1,
             !.ring_buffer = mark_utterance_start(@),
             !.last_interim_text = <<>>]

end_utterance(cs) == [cs EXCEPT !.in_utterance = FALSE]

\* -------------------------------------------------------- SilenceTracker
SilenceTracker(sample_rate, end_silence_ms) ==
  [end_silence_samples |-> (sample_rate * end_silence_ms) \div 1000,
   silence_samples |-> 0,
   speech_started |-> FALSE]

\* no entry in RuntimeState.silence_trackers
NoTracker == [speech_started |-> FALSE]

\* SilenceTracker.update
tracker_update(st, is_speech, num_samples) ==
  IF is_speech
  THEN [st EXCEPT !.silence_samples = 0, !.speech_started = TRUE]
  ELSE IF st.speech_started
       THEN [st EXCEPT !.silence_samples = @ + num_samples]
       ELSE st

should_finalize(st) ==
  st.speech_started /\ st.silence_samples >= st.end_silence_samples

\* SilenceTracker.reset
tracker_reset(st) ==
  [st EXCEPT !.silence_samples = 0, !.speech_started = FALSE]

\* ---------------------------------------------------------------- results
\* the decoder has not finished the job
NoResult == [status |-> "none"]

\* what model.transcribe returns (a text) or that it raised
DecodeResults ==
  {[status |-> "ok", text |-> t] : t \in Texts} \cup {[status |-> "error"]}

\* int(len(text) * 0.7); the product is taken in tenths, which gives the
\* same integer as the floating-point product for the lengths of Texts
stable_chars(text) == (Len(text) * 7) \div 10

\* the InterimMessage / FinalMessage built for a job and its result, with
\* the job and the time of sending attached
Message(job, result, t) ==
  IF job.job_type = "interim"
  THEN [type |-> "interim", job_id |-> job.job_id, text |-> result.text,
        stable_chars |-> stable_chars(result.text), sent_at |-> t]
  ELSE [type |-> "final", job_id |-> job.job_id, text |-> result.text,
        sent_at |-> t]

\* ------------------------------------------------------------------ Init
\* RuntimeState() and startup() under the configuration cfg
RuntimeState(cfg) ==
  /\ scheduler = SchedulerInit
  /\ current_job = [w \in {"final", "interim"} |-> NoJob]
  /\ backpressure = BackpressureManager(cfg)
  /\ connections = {}
  /\ websockets = {}
  /\ connection_throttles = [c \in Conns |-> NoThrottle]
  /\ send_tasks = <<>>
  /\ now = StartTime
  /\ conn_ids = 0
  /\ created = <<>>
  /\ dispatched = [w \in {"final", "interim"} |-> <<>>]
  /\ coalesced = {}
  /\ completed = {}
  /\ out = [c \in Conns |-> <<>>]
  /\ depths = [q_final |-> 0, q_interim |-> 0]
  /\ conn_state = [c \in Conns |-> NoConnection]
  /\ silence_trackers = [c \in Conns |-> NoTracker]
  /\ results = [id \in JobIds |-> NoResult]
  /\ wire = [c \in Conns |-> <<>>]
  /\ transport = [c \in Conns |-> "none"]
  /\ language = [c \in Conns |-> "none"]
  /\ started = {}
  /\ ring = SampleBuffer(RingRate, RingSeconds)
  /\ ring_log = [handed |-> 0, appended |-> <<>>, mark |-> 0]

Init == RuntimeState(Watermarks)

\* ---------------------------------------------------------- RuntimeState
\* WebSocketHandler.handle up to the message loop: a fresh conn_id is
\* generated and registered (ids are never reused; they are numbered in the
\* order of their generation)
add_connection ==
  /\ conn_ids < MaxConns
  /\ \E jitter_ms \in JitterVals :
       LET c == conn_ids + 1
       IN /\ conn_ids' = c
          /\ connections' = connections \cup {c}
          /\ websockets' = websockets \cup {c}
          /\ connection_throttles' =
               [connection_throttles EXCEPT
                  ![c] = ConnectionThrottle(Watermarks.interim_cooldown_ms, jitter_ms)]
          /\ conn_state' =
               [conn_state EXCEPT
                  ![c] = ConnectionAudioState(SAMPLE_RATE, RING_BUFFER_SECONDS)]
          /\ silence_trackers' =
               [silence_trackers EXCEPT
                  ![c] = SilenceTracker(SAMPLE_RATE, VAD_END_SILENCE_MS)]
          /\ transport' = [transport EXCEPT ![c] = "open"]
          /\ language' = [language EXCEPT ![c] = ASR_LANGUAGE]
  /\ UNCHANGED <<scheduler, current_job, backpressure, send_tasks, now,
                 created, dispatched, coalesced, completed, out,
                 depths, results, wire, started,
                 ring, ring_log>>

\* the finally block of WebSocketHandler.handle, reached when receive()
\* raises WebSocketDisconnect: at once when the peer leaves, or as the
\* signal of a disconnect that has already happened
remove_connection(c) ==
  /\ c \in connections
  /\ transport[c] \in {"open", "raises_disconnect"}
  /\ connections' = connections \ {c}
  /\ websockets' = websockets \ {c}
  /\ connection_throttles' = [connection_throttles EXCEPT ![c] = NoThrottle]
  /\ conn_state' = [conn_state EXCEPT ![c] = NoConnection]
  /\ silence_trackers' = [silence_trackers EXCEPT ![c] = NoTracker]
  /\ transport' = [transport EXCEPT ![c] = "none"]
  /\ language' = [language EXCEPT ![c] = "none"]
  /\ UNCHANGED <<scheduler, current_job, backpressure, send_tasks, now,
                 conn_ids, created, dispatched, coalesced, completed, out,
                 depths, results, wire, started,
                 ring, ring_log>>

\* RuntimeState.enqueue_interim, called by the session of connection c
\* (WebSocketHandler._enqueue_interim); the throttled and the rejected call
\* return False and change nothing
runtime_enqueue_interim(c) ==
  /\ c \in connections
  /\ Len(created) < MaxJobs
  /\ should_allow_interim(connection_throttles[c],
                          backpressure.current_cooldown_ms, now)
  /\ LET job == DecodeJob(Len(created) + 1, "interim", c, now)
         r == enqueue_interim(scheduler, job)
     IN /\ r.ok
        /\ scheduler' = r.sched
        /\ connection_throttles' =
             [connection_throttles EXCEPT ![c] = mark_interim_sent(@, now)]
        /\ created' = Append(created, job)
        /\ coalesced' = IF r.removed = NoJob THEN coalesced
                        ELSE coalesced \cup {r.removed.job_id}
  /\ UNCHANGED <<current_job, backpressure, connections, websockets,
                 send_tasks, now, conn_ids, dispatched, completed, out,
                 depths, conn_state, silence_trackers, results, wire,
                 transport, language, started,
                 ring, ring_log>>

\* RuntimeState.enqueue_final, called by the session of connection c
\* (WebSocketHandler._finalize_utterance, on end of speech or on stop), which
\* runs only while c is registered; nothing in the call can refuse the job
runtime_enqueue_final(c) ==
  /\ c \in connections
  /\ Len(created) < MaxJobs
  /\ LET job == DecodeJob(Len(created) + 1, "final", c, now)
     IN /\ scheduler' = enqueue_final(scheduler, job)
        /\ created' = Append(created, job)
  /\ UNCHANGED <<current_job, backpressure, connections, websockets,
                 connection_throttles, send_tasks, now, conn_ids,
                 dispatched, coalesced, completed, out,
                 depths, conn_state, silence_trackers, results, wire,
                 transport, language, started,
                 ring, ring_log>>

\* variant: the worker polls for a job while its decode is still running
worker_dispatch_while_decoding(w) ==
  /\ LET g == get_job_for_type(scheduler, w)
     IN /\ g.job # NoJob
        /\ scheduler' = g.sched
        /\ current_job' = [current_job EXCEPT ![w] = g.job]
        /\ dispatched' = [dispatched EXCEPT ![w] = Append(@, g.job.job_id)]
  /\ UNCHANGED <<backpressure, connections, websockets, connection_throttles,
                 send_tasks, now, conn_ids, created, coalesced, completed, out,
                 depths, conn_state, silence_trackers, results, wire,
                 transport, language, started,
                 ring, ring_log>>

\* DecodeWorker._run of an idle worker: the poll that finds a job and hands
\* it to the thread pool (a poll that finds none sleeps and changes nothing)
worker_dispatch(w) ==
  /\ current_job[w] = NoJob
  /\ LET g == get_job_for_type(scheduler, w)
     IN /\ g.job # NoJob
        /\ scheduler' = g.sched
        /\ current_job' = [current_job EXCEPT ![w] = g.job]
        /\ dispatched' = [dispatched EXCEPT ![w] = Append(@, g.job.job_id)]
  /\ UNCHANGED <<backpressure, connections, websockets, connection_throttles,
                 send_tasks, now, conn_ids, created, coalesced, completed, out,
                 depths, conn_state, silence_trackers, results, wire,
                 transport, language, started,
                 ring, ring_log>>

\* _handle_interim_result / _handle_final_result: an error result is only
\* logged, a success creates the task that sends the message
handle_result(tasks, job, success) ==
  IF success THEN Append(tasks, job) ELSE tasks

\* DecodeWorker._process_job after the decode returned (success) or raised:
\* the result callback, mark_job_complete, and, without an await in between,
\* the next _get_job_for_type of the worker loop
worker_complete(w) ==
  /\ current_job[w] # NoJob
  /\ \E success \in BOOLEAN :
       LET job == current_job[w]
           g == get_job_for_type(mark_job_complete(scheduler, job), w)
       IN /\ send_tasks' = handle_result(send_tasks, job, success)
          /\ scheduler' = g.sched
          /\ current_job' = [current_job EXCEPT ![w] = g.job]
          /\ completed' = completed \cup {job.job_id}
          /\ dispatched' = IF g.job = NoJob THEN dispatched
                           ELSE [dispatched EXCEPT ![w] = Append(@, g.job.job_id)]
  /\ UNCHANGED <<backpressure, connections, websockets, connection_throttles,
                 now, conn_ids, created, coalesced, out,
                 depths, conn_state, silence_trackers, results, wire,
                 transport, language, started,
                 ring, ring_log>>

\* as send_message, but without the test for the websocket of the connection
send_message_unguarded ==
  /\ send_tasks # <<>>
  /\ LET job == Head(send_tasks)
     IN out' = [out EXCEPT ![job.conn_id] = Append(@, job)]
  /\ send_tasks' = Tail(send_tasks)
  /\ UNCHANGED <<scheduler, current_job, backpressure, connections, websockets,
                 connection_throttles, now, conn_ids, created, dispatched,
                 coalesced, completed,
                 depths, conn_state, silence_trackers, results, wire,
                 transport, language, started,
                 ring, ring_log>>

\* _send_interim_message / _send_final_message: the event loop starts the
\* tasks in the order of their creation, and each hands its message to the
\* websocket of the connection; without one the message is dropped
send_message ==
  /\ send_tasks # <<>>
  /\ LET job == Head(send_tasks)
     IN out' = IF job.conn_id \in websockets
               THEN [out EXCEPT ![job.conn_id] = Append(@, job)]
               ELSE out
  /\ send_tasks' = Tail(send_tasks)
  /\ UNCHANGED <<scheduler, current_job, backpressure, connections, websockets,
                 connection_throttles, now, conn_ids, created, dispatched,
                 coalesced, completed,
                 depths, conn_state, silence_trackers, results, wire,
                 transport, language, started,
                 ring, ring_log>>

\* one round of RuntimeState._monitor_loop
monitor ==
  /\ LET B == update(backpressure, Len(scheduler.q_final), Len(scheduler.q_interim))
         lim == get_burst_limits(B)
     IN /\ backpressure' = B
        /\ scheduler' = set_burst_limits(scheduler, lim.f_final_burst,
                                         lim.f_interim_burst)
  /\ UNCHANGED <<current_job, connections, websockets, connection_throttles,
                 send_tasks, now, conn_ids, created, dispatched, coalesced,
                 completed, out,
                 depths, conn_state, silence_trackers, results, wire,
                 transport, language, started,
                 ring, ring_log>>

\* the wall clock advances
tick ==
  /\ now < MaxTime
  /\ now' = now + 1
  /\ UNCHANGED <<scheduler, current_job, backpressure, connections, websockets,
                 connection_throttles, send_tasks, conn_ids, created,
                 dispatched, coalesced, completed, out,
                 depths, conn_state, silence_trackers, results, wire,
                 transport, language, started,
                 ring, ring_log>>

Next ==
  \/ add_connection
  \/ \E c \in Conns : remove_connection(c)
  \/ \E c \in Conns : runtime_enqueue_interim(c)
  \/ \E c \in Conns : runtime_enqueue_final(c)
  \/ \E w \in {"final", "interim"} : worker_dispatch(w)
  \/ \E w \in {"final", "interim"} : worker_complete(w)
  \/ send_message
  \/ monitor
  \/ tick

Spec == Init /\ [][Next]_vars

\* the decode of every dispatched job terminates and the workers keep polling
Fairness ==
  /\ WF_vars(worker_dispatch("final"))
  /\ WF_vars(worker_complete("final"))

LiveSpec == Init /\ [][Next]_vars /\ Fairness

\* ------------------------------------------ one session followed in detail
\* WebSocketHandler of connection c: the state a message handler works on,
\* and the same after each call it makes
Session(c) ==
  [cs |-> conn_state[c],
   st |-> silence_trackers[c],
   scheduler |-> scheduler,
   throttle |-> connection_throttles[c],
   created |-> created,
   coalesced |-> coalesced]

\* RuntimeState.enqueue_final as called by _finalize_utterance
session_enqueue_final(X, c, audio, t) ==
  LET job == DecodeJobWithAudio(Len(X.created) + 1, "final", c, t, audio)
  IN [X EXCEPT !.scheduler = enqueue_final(@, job),
               !.created = Append(@, job)]

\* WebSocketHandler._finalize_utterance
finalize_utterance(X, c, t) ==
  LET audio == get_utterance(X.cs.ring_buffer)
  IN IF audio.len = 0
     THEN X
     ELSE [session_enqueue_final(X, c, audio, t) EXCEPT
             !.cs = end_utterance(@)]

\* variant: the throttle is marked on every attempt that passes it, also when
\* the scheduler rejects the job
session_enqueue_interim_marking(X, c, audio, current_cooldown_ms, t) ==
  IF ~should_allow_interim(X.throttle, current_cooldown_ms, t)
  THEN X
  ELSE LET job == DecodeJobWithAudio(Len(X.created) + 1, "interim", c, t, audio)
           r == enqueue_interim(X.scheduler, job)
       IN IF r.ok
          THEN [X EXCEPT !.scheduler = r.sched,
                         !.throttle = mark_interim_sent(@, t),
                         !.created = Append(@, job),
                         !.coalesced = IF r.removed = NoJob THEN @
                                       ELSE @ \cup {r.removed.job_id}]
          ELSE [X EXCEPT !.throttle = mark_interim_sent(@, t)]

\* RuntimeState.enqueue_interim as called by _enqueue_interim: throttled or
\* rejected, it leaves everything as it was
session_enqueue_interim(X, c, audio, current_cooldown_ms, t) ==
  IF ~should_allow_interim(X.throttle, current_cooldown_ms, t)
  THEN X
  ELSE LET job == DecodeJobWithAudio(Len(X.created) + 1, "interim", c, t, audio)
           r == enqueue_interim(X.scheduler, job)
       IN IF r.ok
          THEN [X EXCEPT !.scheduler = r.sched,
                         !.throttle = mark_interim_sent(@, t),
                         !.created = Append(@, job),
                         !.coalesced = IF r.removed = NoJob THEN @
                                       ELSE @ \cup {r.removed.job_id}]
          ELSE X

\* WebSocketHandler._enqueue_interim
enqueue_interim_tail(X, c, B, t) ==
  LET audio == get_tail(X.cs.ring_buffer, SAMPLE_RATE, B.current_tail_ms)
  IN IF audio.len = 0
     THEN X
     ELSE session_enqueue_interim(X, c, audio, B.current_cooldown_ms, t)

\* WebSocketHandler._handle_audio for a chunk of num_samples samples that
\* the VAD classifies as is_speech; none of the coroutines it awaits
\* suspends, so the whole handler is one step
handle_audio_steps(X, c, is_speech, num_samples, B, t) ==
  LET X1 == [X EXCEPT !.cs.ring_buffer = append(@, num_samples),
                      !.st = tracker_update(@, is_speech, num_samples)]
      X2 == IF should_finalize(X1.st)
            THEN [finalize_utterance(X1, c, t) EXCEPT
                    !.st = tracker_reset(@),
                    !.cs = start_utterance(@)]
            ELSE X1
      X3 == IF is_speech /\ ~X2.cs.in_utterance
            THEN [X2 EXCEPT !.cs = start_utterance(@)]
            ELSE X2
  IN IF X3.cs.in_utterance THEN enqueue_interim_tail(X3, c, B, t) ELSE X3

\* WebSocketHandler.handle up to the message loop, for the sessions followed
open_session ==
  /\ conn_ids < MaxSessions
  /\ add_connection

\* a binary message of ChunkSamples samples arrives on the websocket of c;
\* the handler runs only while c is registered
handle_audio(c, is_speech) ==
  /\ c \in connections
  /\ transport[c] = "open"
  /\ conn_state[c].ring_buffer.total_samples_written < MaxChunks * ChunkSamples
  /\ LET Y == handle_audio_steps(Session(c), c, is_speech, ChunkSamples,
                                 backpressure, now)
     IN /\ Len(Y.created) <= MaxJobs
        /\ conn_state' = [conn_state EXCEPT ![c] = Y.cs]
        /\ silence_trackers' = [silence_trackers EXCEPT ![c] = Y.st]
        /\ scheduler' = Y.scheduler
        /\ connection_throttles' = [connection_throttles EXCEPT ![c] = Y.throttle]
        /\ created' = Y.created
        /\ coalesced' = Y.coalesced
  /\ UNCHANGED <<current_job, backpressure, connections, websockets,
                 send_tasks, now, conn_ids, dispatched, completed, out,
                 depths, results, wire,
                 transport, language, started,
                 ring, ring_log>>

\* WebSocketHandler._handle_stop: a stop control message arrives
handle_stop(c) ==
  /\ c \in connections
  /\ transport[c] = "open"
  /\ LET Y == finalize_utterance(Session(c), c, now)
     IN /\ Len(Y.created) <= MaxJobs
        /\ conn_state' = [conn_state EXCEPT ![c] = Y.cs]
        /\ scheduler' = Y.scheduler
        /\ created' = Y.created
  /\ UNCHANGED <<current_job, backpressure, connections, websockets,
                 connection_throttles, send_tasks, now, conn_ids, dispatched,
                 coalesced, completed, out, depths, silence_trackers,
                 results, wire,
                 transport, language, started,
                 ring, ring_log>>

\* DecodeWorker._process_job after the decode returned result or raised, as
\* worker_complete but with the result: _handle_interim_result also notes
\* the text and the time in the connection's state, if it still has one
worker_complete_with(w, result) ==
  /\ current_job[w] # NoJob
  /\ LET job == current_job[w]
         c == job.conn_id
         g == get_job_for_type(mark_job_complete(scheduler, job), w)
     IN /\ results' = [results EXCEPT ![job.job_id] = result]
        /\ send_tasks' = handle_result(send_tasks, job, result.status = "ok")
        /\ conn_state' =
             IF w = "interim" /\ result.status = "ok" /\ c \in connections
             THEN [conn_state EXCEPT ![c].last_interim_text = result.text,
                                     ![c].last_interim_time = now]
             ELSE conn_state
        /\ scheduler' = g.sched
        /\ current_job' = [current_job EXCEPT ![w] = g.job]
        /\ completed' = completed \cup {job.job_id}
        /\ dispatched' = IF g.job = NoJob THEN dispatched
                         ELSE [dispatched EXCEPT ![w] = Append(@, g.job.job_id)]
  /\ UNCHANGED <<backpressure, connections, websockets, connection_throttles,
                 now, conn_ids, created, coalesced, out, depths,
                 silence_trackers, wire,
                 transport, language, started,
                 ring, ring_log>>

\* _send_interim_message / _send_final_message, as send_message but with the
\* message that is built from the result
send_result_message ==
  /\ send_tasks # <<>>
  /\ LET job == Head(send_tasks)
         c == job.conn_id
     IN IF c \in websockets
        THEN /\ out' = [out EXCEPT ![c] = Append(@, job)]
             /\ wire' = [wire EXCEPT
                           ![c] = Append(@, Message(job, results[job.job_id], now))]
        ELSE UNCHANGED <<out, wire>>
  /\ send_tasks' = Tail(send_tasks)
  /\ UNCHANGED <<scheduler, current_job, backpressure, connections, websockets,
                 connection_throttles, now, conn_ids, created, dispatched,
                 coalesced, completed, depths, conn_state, silence_trackers,
                 results,
                 transport, language, started,
                 ring, ring_log>>

SessionNext ==
  \/ open_session
  \/ \E c \in Conns : remove_connection(c)
  \/ \E c \in Conns : \E is_speech \in BOOLEAN : handle_audio(c, is_speech)
  \/ \E c \in Conns : handle_stop(c)
  \/ \E w \in {"final", "interim"} : worker_dispatch(w)
  \/ \E w \in {"final", "interim"} :
       \E result \in DecodeResults : worker_complete_with(w, result)
  \/ send_result_message
  \/ tick

\* the monitor loop does not run here: the backpressure level stays Normal
SessionSpec == Init /\ [][SessionNext]_vars

\* ------------------------------------- one session listening to a signal
\* the audio the client streams, as the VAD hears it: 200 ms of speech,
\* 300 ms of silence, 200 ms of speech, 600 ms of silence
S4 ==
  <<[ms |-> 200, speech |-> TRUE], [ms |-> 300, speech |-> FALSE],
    [ms |-> 200, speech |-> TRUE], [ms |-> 600, speech |-> FALSE]>>

\* the number of the sample at which segment k of the signal ends
RECURSIVE SegmentEnd(_)
SegmentEnd(k) ==
  IF k = 0 THEN 0
  ELSE SegmentEnd(k - 1) + (S4[k].ms * SAMPLE_RATE) \div 1000

SignalSamples == SegmentEnd(Len(S4))

\* the segment of the signal that sample i lies in
SegmentOf(i) ==
  CHOOSE k \in 1..Len(S4) : SegmentEnd(k - 1) <= i /\ i < SegmentEnd(k)

\* the sizes in which the client cuts the signal into binary messages (50
\* and 300 ms of PCM16), and a message with a stray byte
ChunkBytes == {1600, 9600, 641}

\* the language a start message names
Languages == {"en"}

\* variant: a stray last byte is cut off instead of refused
frombuffer_truncating(num_bytes) ==
  [ok |-> TRUE, len |-> num_bytes \div 2]

\* np.frombuffer(audio_bytes, dtype=np.int16): the number of samples, or a
\* ValueError when the size is not a multiple of the sample size
frombuffer(num_bytes) ==
  IF num_bytes % 2 = 0
  THEN [ok |-> TRUE, len |-> num_bytes \div 2]
  ELSE [ok |-> FALSE, len |-> 0]

\* VADProcessor.frame_length
frame_length == (SAMPLE_RATE * FRAME_DURATION_MS) \div 1000

\* VADProcessor.is_speech for the chunk of n samples that starts at sample
\* first of the signal: what webrtcvad can answer for the first frame of the
\* chunk (cut to frame_length, or padded with zeros). A full frame of
\* speech is speech, a frame of silence is not; for a frame that straddles
\* a boundary or is padded, either answer is possible
vad_is_speech(first, n) ==
  LET m == IF n < frame_length THEN n ELSE frame_length
      last == first + m - 1
  IN IF SegmentOf(first) = SegmentOf(last)
     THEN IF ~S4[SegmentOf(first)].speech THEN {FALSE}
          ELSE IF n < frame_length THEN BOOLEAN ELSE {TRUE}
     ELSE BOOLEAN

\* the ErrorMessage sent by _send_error, with the time of sending attached
ErrorMessage(code, t) == [type |-> "error", code |-> code, sent_at |-> t]

\* WebSocketHandler._handle_start: a start control message arrives
handle_start(c, lang) ==
  /\ c \in connections
  /\ transport[c] = "open"
  /\ language' = [language EXCEPT ![c] = lang]
  /\ started' = started \cup {c}
  /\ UNCHANGED <<scheduler, current_job, backpressure, connections, websockets,
                 connection_throttles, send_tasks, now, conn_ids, created,
                 dispatched, coalesced, completed, out, depths, conn_state,
                 silence_trackers, results, wire, transport,
                 ring, ring_log>>

\* a binary message of num_bytes bytes arrives: the next samples of the
\* signal, or the malformed message. WebSocketHandler._handle_audio, and the
\* except clause of the message loop for the ValueError of np.frombuffer,
\* which is raised before anything has been changed
receive_bytes(c, num_bytes) ==
  /\ c \in connections
  /\ transport[c] = "open"
  /\ LET audio == frombuffer(num_bytes)
         first == conn_state[c].ring_buffer.total_samples_written
     IN IF ~audio.ok
        THEN /\ Len(wire[c]) < MaxErrors
             /\ wire' = [wire EXCEPT
                           ![c] = Append(@, ErrorMessage("MESSAGE_ERROR", now))]
             /\ UNCHANGED <<conn_state, silence_trackers, scheduler,
                            connection_throttles, created, coalesced>>
        ELSE /\ first + audio.len <= SignalSamples
             /\ \E speech \in vad_is_speech(first, audio.len) :
                  LET Y == handle_audio_steps(Session(c), c, speech, audio.len,
                                              backpressure, now)
                  IN /\ Len(Y.created) <= MaxJobs
                     /\ conn_state' = [conn_state EXCEPT ![c] = Y.cs]
                     /\ silence_trackers' =
                          [silence_trackers EXCEPT ![c] = Y.st]
                     /\ scheduler' = Y.scheduler
                     /\ connection_throttles' =
                          [connection_throttles EXCEPT ![c] = Y.throttle]
                     /\ created' = Y.created
                     /\ coalesced' = Y.coalesced
             /\ UNCHANGED wire
  /\ UNCHANGED <<current_job, backpressure, connections, websockets,
                 send_tasks, now, conn_ids, dispatched, completed, out,
                 depths, results, transport, language, started,
                 ring, ring_log>>

\* the peer of connection c goes away; the transport will tell the handler
\* in one of two ways: receive() raises WebSocketDisconnect, or receive()
\* returns a disconnect message
transport_disconnect(c, signal) ==
  /\ c \in connections
  /\ transport[c] = "open"
  /\ transport' = [transport EXCEPT ![c] = signal]
  /\ UNCHANGED <<scheduler, current_job, backpressure, connections, websockets,
                 connection_throttles, send_tasks, now, conn_ids, created,
                 dispatched, coalesced, completed, out, depths, conn_state,
                 silence_trackers, results, wire, language, started,
                 ring, ring_log>>

\* the message loop: receive() raises WebSocketDisconnect, the loop breaks
\* and the finally block runs
receive_raises_disconnect(c) ==
  /\ transport[c] = "raises_disconnect"
  /\ remove_connection(c)

\* the message loop: receive() returns the disconnect message, which has
\* neither "bytes" nor "text"; a warning is logged and the loop goes on.
\* Every later receive() raises an error that is not a WebSocketDisconnect
receive_disconnect_message(c) ==
  /\ c \in connections
  /\ transport[c] = "disconnect_message"
  /\ transport' = [transport EXCEPT ![c] = "closed"]
  /\ UNCHANGED <<scheduler, current_job, backpressure, connections, websockets,
                 connection_throttles, send_tasks, now, conn_ids, created,
                 dispatched, coalesced, completed, out, depths, conn_state,
                 silence_trackers, results, wire, language, started,
                 ring, ring_log>>

\* the message loop: receive() raises on the closed transport; the except
\* clause logs the error, _send_error fails on the closed websocket and
\* swallows the failure, and the loop goes on
receive_after_disconnect(c) ==
  /\ c \in connections
  /\ transport[c] = "closed"
  /\ UNCHANGED vars

StreamNext ==
  \/ open_session
  \/ \E c \in Conns : \E lang \in Languages : handle_start(c, lang)
  \/ \E c \in Conns : \E num_bytes \in ChunkBytes : receive_bytes(c, num_bytes)
  \/ \E c \in Conns :
       \E signal \in {"raises_disconnect", "disconnect_message"} :
         transport_disconnect(c, signal)
  \/ \E c \in Conns : receive_raises_disconnect(c)
  \/ \E c \in Conns : receive_disconnect_message(c)
  \/ \E c \in Conns : receive_after_disconnect(c)
  \/ tick

\* the client sends no stop and the workers do not run here
StreamSpec == Init /\ [][StreamNext]_vars

\* the message loop of a handler keeps running: receive() is awaited again
\* after every message, and returns or raises when the transport has
\* something to report
StreamFairness ==
  \A c \in Conns :
    /\ WF_vars(receive_raises_disconnect(c))
    /\ WF_vars(receive_disconnect_message(c))
    /\ WF_vars(receive_after_disconnect(c))

StreamLiveSpec == Init /\ [][StreamNext]_vars /\ StreamFairness

\* ------------------------------------------- the scheduler in steady state
\* The scheduler and the workers under connections that keep submitting, for
\* behaviours without end: the statistics counters and the histories are
\* not kept (they influence no decision), the clock stands still, and a new
\* job takes an id that no waiting or running job holds.
forget_stats(S) == [S EXCEPT !.stats = SchedulerInit.stats]

\* the jobs that wait in a queue or are being decoded
LiveJobs ==
  ({scheduler.q_final[i] : i \in 1..Len(scheduler.q_final)}
     \cup {scheduler.q_interim[i] : i \in 1..Len(scheduler.q_interim)}
     \cup {current_job[w] : w \in {"final", "interim"}}) \ {NoJob}

\* generate_job_id()
fresh_job_id ==
  CHOOSE id \in 1..(MaxJobs + 1) :
    /\ \A job \in LiveJobs : job.job_id # id
    /\ \A other \in 1..(MaxJobs + 1) :
         (\A job \in LiveJobs : job.job_id # other) => id <= other

\* RuntimeState.enqueue_interim for connection c at a time when the throttle
\* admits it
steady_enqueue_interim(c) ==
  /\ c \in connections
  /\ Cardinality(LiveJobs) <= MaxJobs
  /\ LET job == DecodeJob(fresh_job_id, "interim", c, now)
         r == enqueue_interim(scheduler, job)
     IN /\ r.ok
        /\ scheduler' = forget_stats(r.sched)
  /\ UNCHANGED <<current_job, backpressure, connections, websockets,
                 connection_throttles, send_tasks, now, conn_ids, created,
                 dispatched, coalesced, completed, out, depths, conn_state,
                 silence_trackers, results, wire, transport, language, started,
          ring, ring_log>>

\* RuntimeState.enqueue_final for connection c
steady_enqueue_final(c) ==
  /\ c \in connections
  /\ Cardinality(LiveJobs) <= MaxJobs
  /\ LET job == DecodeJob(fresh_job_id, "final", c, now)
     IN scheduler' = forget_stats(enqueue_final(scheduler, job))
  /\ UNCHANGED <<current_job, backpressure, connections, websockets,
                 connection_throttles, send_tasks, now, conn_ids, created,
                 dispatched, coalesced, completed, out, depths, conn_state,
                 silence_trackers, results, wire, transport, language, started,
          ring, ring_log>>

\* DecodeWorker._run of an idle worker, as worker_dispatch
steady_dispatch(w) ==
  /\ current_job[w] = NoJob
  /\ LET g == get_job_for_type(scheduler, w)
     IN /\ g.job # NoJob
        /\ scheduler' = forget_stats(g.sched)
        /\ current_job' = [current_job EXCEPT ![w] = g.job]
  /\ UNCHANGED <<backpressure, connections, websockets, connection_throttles,
                 send_tasks, now, conn_ids, created, dispatched, coalesced,
                 completed, out, depths, conn_state, silence_trackers,
                 results, wire, transport, language, started,
                 ring, ring_log>>

\* DecodeWorker._process_job after the decode returned or raised, as
\* worker_complete; the task that sends a result runs before the next
\* result is handled
steady_complete(w) ==
  /\ current_job[w] # NoJob
  /\ send_tasks = <<>>
  /\ \E success \in BOOLEAN :
       LET job == current_job[w]
           g == get_job_for_type(mark_job_complete(scheduler, job), w)
       IN /\ send_tasks' = handle_result(send_tasks, job, success)
          /\ scheduler' = forget_stats(g.sched)
          /\ current_job' = [current_job EXCEPT ![w] = g.job]
  /\ UNCHANGED <<backpressure, connections, websockets, connection_throttles,
                 now, conn_ids, created, dispatched, coalesced, completed,
                 out, depths, conn_state, silence_trackers, results, wire,
                 transport, language, started,
                 ring, ring_log>>

\* _send_interim_message / _send_final_message, as send_message
steady_send ==
  /\ send_tasks # <<>>
  /\ send_tasks' = Tail(send_tasks)
  /\ UNCHANGED <<scheduler, current_job, backpressure, connections, websockets,
                 connection_throttles, now, conn_ids, created, dispatched,
                 coalesced, completed, out, depths, conn_state,
                 silence_trackers, results, wire, transport, language, started,
          ring, ring_log>>

SteadyNext ==
  \/ add_connection
  \/ \E c \in Conns : steady_enqueue_interim(c)
  \/ \E c \in Conns : steady_enqueue_final(c)
  \/ \E w \in {"final", "interim"} : steady_dispatch(w)
  \/ \E w \in {"final", "interim"} : steady_complete(w)
  \/ steady_send

\* every decode terminates (however often the handling of its result has to
\* wait for a send task), the workers keep polling and the event loop runs
\* the tasks it was given; the monitor loop does not run, so interims are
\* never paused
SteadyFairness ==
  /\ \A w \in {"final", "interim"} :
       WF_vars(steady_dispatch(w)) /\ SF_vars(steady_complete(w))
  /\ WF_vars(steady_send)

SteadySpec == Init /\ [][SteadyNext]_vars /\ SteadyFairness

\* --------------------------------------------- the ring buffer alone
\* A small AudioRingBuffer under every sequence of append and
\* mark_utterance_start, with chunks shorter and longer than the buffer.
\* The samples handed to append are numbered in the order of their arrival.
append_chunk(num_samples) ==
  /\ ring_log.handed + num_samples <= MaxHanded
  /\ LET audio == [k \in 1..num_samples |-> ring_log.handed + k]
         r == append_samples(ring, audio)
     IN /\ ring' = r.rb
        /\ ring_log' = [ring_log EXCEPT
                          !.handed = @ + num_samples,
                          !.appended = IF r.raised THEN @ ELSE @ \o audio]
  /\ UNCHANGED <<scheduler, current_job, backpressure, connections, websockets,
                 connection_throttles, send_tasks, now, conn_ids, created,
                 dispatched, coalesced, completed, out, depths, conn_state,
                 silence_trackers, results, wire, transport, language, started>>

\* AudioRingBuffer.mark_utterance_start (called by start_utterance)
mark_start ==
  /\ ring' = mark_utterance_start(ring)
  /\ ring_log' = [ring_log EXCEPT !.mark = Len(ring_log.appended)]
  /\ UNCHANGED <<scheduler, current_job, backpressure, connections, websockets,
                 connection_throttles, send_tasks, now, conn_ids, created,
                 dispatched, coalesced, completed, out, depths, conn_state,
                 silence_trackers, results, wire, transport, language, started>>

RingNext ==
  \/ \E num_samples \in 0..MaxChunkLen : append_chunk(num_samples)
  \/ mark_start

RingSpec == Init /\ [][RingNext]_vars

\* ------------------------------------- the backpressure controller alone
\* the configuration with its default values
DefaultConfig ==
  [final_hi |-> 6, final_crit |-> 12, interim_hi |-> 20, interim_crit |-> 40,
   interim_cooldown_ms |-> 220, tail_ms |-> 7000]

\* one round of RuntimeState._monitor_loop in which get_queue_depths reports
\* q_final_len finals and q_interim_len interims waiting
monitor_round(q_final_len, q_interim_len) ==
  /\ LET B == update(backpressure, q_final_len, q_interim_len)
         lim == get_burst_limits(B)
     IN /\ backpressure' = B
        /\ scheduler' = set_burst_limits(scheduler, lim.f_final_burst,
                                         lim.f_interim_burst)
  /\ depths' = [q_final |-> q_final_len, q_interim |-> q_interim_len]
  /\ UNCHANGED <<current_job, connections, websockets, connection_throttles,
                 send_tasks, now, conn_ids, created, dispatched, coalesced,
                 completed, out, conn_state, silence_trackers, results, wire,
                 transport, language, started,
                 ring, ring_log>>

BackpressureInit == RuntimeState(DefaultConfig)

BackpressureNext ==
  \E q_final_len \in 0..MaxFinalDepth :
    \E q_interim_len \in 0..MaxInterimDepth :
      monitor_round(q_final_len, q_interim_len)

BackpressureSpec == BackpressureInit /\ [][BackpressureNext]_vars

\* ------------------------------ the backpressure controller, any base tail
\* values of TAIL_SECONDS in the environment, in milliseconds (multiples of
\* 4 ms, so that a quarter and a half of each are whole milliseconds)
TailCandidates ==
  {500, 1000, 1200, 1500, 2000, 3000, 4000, 7000, 12000, 30000, 31000}

\* Config.validate_tail: the configuration is created only with a tail
\* between 1.0 and 30.0 seconds
validate_tail(v) == v >= 1000 /\ v <= 30000

\* RuntimeState() under the default configuration with an allowed tail
TailInit ==
  \E v \in TailCandidates :
    /\ validate_tail(v)
    /\ RuntimeState([DefaultConfig EXCEPT !.tail_ms = v])

TailSpec == TailInit /\ [][BackpressureNext]_vars

\* ------------------------------------------------------ derived notions
Ids(q) == [i \in 1..Len(q) |-> q[i].job_id]

IsFinal(job) == job.job_type = "final"
IsInterim(job) == job.job_type = "interim"

\* interims of connection c waiting in the interim queue
QueuedInterims(c) ==
  {i \in 1..Len(scheduler.q_interim) : scheduler.q_interim[i].conn_id = c}

\* interims of connection c dequeued and not yet marked complete
InflightInterims(c) ==
  IF current_job["interim"] # NoJob /\ current_job["interim"].conn_id = c
  THEN {current_job["interim"].job_id} ELSE {}

\* interims whose processing has finished (decoded or failed)
DecodedInterims == {id \in completed : IsInterim(created[id])}

InFlightInterimCount == IF current_job["interim"] = NoJob THEN 0 ELSE 1

\* ------------------------------------------------------------------ C1
\* C1: at every instant each conn_id has at most one interim that is queued
\* in q_interim or in flight (dequeued and not yet marked complete).
C1_InterimCapPerConn ==
  \A c \in Conns :
    Cardinality(QueuedInterims(c)) + Cardinality(InflightInterims(c)) <= 1

\* ------------------------------------------------------------------ C2
\* C2: no interim is dequeued while a final is waiting in q_final.
C2_NoInterimWhileFinalWaits ==
  [][scheduler'.stats.total_dequeued_interims
       # scheduler.stats.total_dequeued_interims
     => Len(scheduler.q_final) = 0]_vars

\* ------------------------------------------------------------------ C3
\* C3: every final that is enqueued is eventually dispatched to the final
\* worker, whatever the backpressure level, and the final burst limit is
\* never changed by backpressure.
C3_FinalsEventuallyDispatched ==
  /\ [](scheduler.f_final_burst = F_FINAL_BURST)
  /\ \A id \in JobIds :
       (\E i \in 1..Len(scheduler.q_final) : scheduler.q_final[i].job_id = id)
         ~> Contains(dispatched["final"], id)

\* finals were dispatched after the monitor paused interims at Critical
C3_Witness ==
  /\ backpressure.level = "critical"
  /\ backpressure.interims_paused
  /\ scheduler.f_interim_burst = 0
  /\ Len(scheduler.q_interim) > 0
  /\ Len(scheduler.q_final) = 0
  /\ Len(dispatched["final"]) >= backpressure.final_crit

\* ------------------------------------------------------------------ C4
\* C4: every call of enqueue_final is accepted, and the finals are dequeued
\* in exactly the order of their enqueue, each once: the finals dispatched so
\* far followed by the finals still queued are all finals created, in order.
C4_FinalsFifoNeverDropped ==
  dispatched["final"] \o Ids(scheduler.q_final) = Ids(SelectSeq(created, IsFinal))

\* two finals were dispatched and a third was accepted while a job of its
\* connection was in flight
C4_Witness ==
  /\ Len(dispatched["final"]) >= 2
  /\ \E i \in 1..Len(scheduler.q_final) :
       scheduler.inflight_by_conn[scheduler.q_final[i].conn_id] # NoJob

\* ------------------------------------------------------------------ C5
\* C5: q_interim holds at most one job per conn_id, that job is the newest
\* interim accepted for the connection, and a job replaced by coalescing is
\* neither queued nor ever dispatched.
C5_OneQueuedInterimPerConn ==
  /\ \A c \in Conns : Cardinality(QueuedInterims(c)) <= 1
  /\ \A i \in 1..Len(scheduler.q_interim) :
       \A id \in 1..Len(created) :
         (IsInterim(created[id])
            /\ created[id].conn_id = scheduler.q_interim[i].conn_id)
           => id <= scheduler.q_interim[i].job_id
  /\ \A id \in coalesced :
       /\ ~Contains(dispatched["interim"], id)
       /\ ~Contains(Ids(scheduler.q_interim), id)

\* a queued interim was replaced and its replacement has been dispatched
C5_Witness ==
  \E id \in coalesced :
    \E k \in 1..Len(dispatched["interim"]) :
      /\ dispatched["interim"][k] > id
      /\ created[dispatched["interim"][k]].conn_id = created[id].conn_id

\* ------------------------------------------------------------------ C6
\* C6: for a fixed conn_id no interim whose job was created before a final
\* is emitted after that final's result.
C6_NoInterimAfterLaterFinal ==
  \A c \in Conns :
    \A i, k \in 1..Len(out[c]) :
      ~(/\ i < k
        /\ IsFinal(out[c][i])
        /\ IsInterim(out[c][k])
        /\ out[c][k].created_at < out[c][i].created_at)

\* ------------------------------------------------------------------ C7
\* C7: for a fixed conn_id results of the same kind reach the transport in
\* the order in which their jobs were enqueued.
C7_SameKindInEnqueueOrder ==
  \A c \in Conns :
    \A i, k \in 1..Len(out[c]) :
      (i < k /\ out[c][i].job_type = out[c][k].job_type)
        => out[c][i].job_id < out[c][k].job_id

\* two results of the same kind were delivered to one connection
C7_Witness ==
  \E c \in Conns :
    \E i, k \in 1..Len(out[c]) :
      i < k /\ out[c][i].job_type = out[c][k].job_type

\* ------------------------------------------------------------------ C8
\* C8: at every point accepted - coalesced - decoded - in-flight interims = 0.
C8_InterimBalanceZero ==
  scheduler.stats.total_enqueued_interims - scheduler.stats.total_coalesced
    - Cardinality(DecodedInterims) - InFlightInterimCount = 0

\* C8 (amended): at every point accepted - coalesced - decoded - in-flight
\* interims equals the number of interims waiting in the interim queue.
C8_InterimBalanceQueued ==
  scheduler.stats.total_enqueued_interims - scheduler.stats.total_coalesced
    - Cardinality(DecodedInterims) - InFlightInterimCount
  = Len(scheduler.q_interim)

\* one interim coalesced away, one decoded, one in flight or queued
C8_Witness ==
  /\ scheduler.stats.total_coalesced >= 1
  /\ Cardinality(DecodedInterims) >= 1
  /\ InFlightInterimCount + Len(scheduler.q_interim) >= 1

\* ------------------------------------------------------------------ C9
\* C9: q_interim never holds more entries than there are connections
\* currently registered with the runtime.
C9_InterimQueueWithinLiveConnections ==
  Len(scheduler.q_interim) <= Cardinality(connections)

\* C9 (amended): q_interim never holds more entries than there are
\* connections registered so far, removed ones included.
C9_InterimQueueWithinConnectionsEver ==
  Len(scheduler.q_interim) <= conn_ids

\* the queue is full to the amended bound after a coalescing enqueue and a
\* disconnect
C9_Witness ==
  /\ Len(scheduler.q_interim) = conn_ids
  /\ conn_ids >= 2
  /\ coalesced # {}
  /\ Cardinality(connections) < conn_ids

\* ----------------------------------------------------------------- C10
\* C10: the final queue never holds more than final_crit jobs.
C10_FinalQueueWithinCrit ==
  Len(scheduler.q_final) <= backpressure.final_crit

\* ----------------------------------------------------------------- C11
\* C11: the interim dispatched next is always the queued interim with the
\* smallest created_at, ties broken by insertion order (jobs are numbered in
\* the order of their insertion), also after a coalescing replacement.
C11_OldestInterimFirst ==
  [][scheduler'.stats.total_dequeued_interims
       # scheduler.stats.total_dequeued_interims
     => LET job == current_job'["interim"]
        IN /\ Contains(scheduler.q_interim, job)
           /\ \A i \in 1..Len(scheduler.q_interim) :
                LET other == scheduler.q_interim[i]
                IN \/ job.created_at < other.created_at
                   \/ /\ job.created_at = other.created_at
                      /\ job.job_id <= other.job_id]_vars

\* an interim was dispatched ahead of a newer queued one after a job queued
\* before both had been replaced by coalescing
C11_Witness ==
  /\ current_job["interim"] # NoJob
  /\ \E id \in coalesced : id < current_job["interim"].job_id
  /\ \E i \in 1..Len(scheduler.q_interim) :
       scheduler.q_interim[i].job_id > current_job["interim"].job_id

\* ----------------------------------------------------------------- C12
\* C12: while backpressure.interims_paused is true no interim is dequeued
\* from q_interim, and an idle final worker still takes a waiting final.
C12_PausedMeansNoInterimDispatch ==
  /\ [][backpressure.interims_paused
          => scheduler'.stats.total_dequeued_interims
               = scheduler.stats.total_dequeued_interims]_vars
  /\ []((/\ backpressure.interims_paused
         /\ current_job["final"] = NoJob
         /\ Len(scheduler.q_final) > 0)
          => ENABLED worker_dispatch("final"))

\* interims are paused at High with an interim waiting and the interim worker
\* idle, and the final that caused the pause has been dispatched since
C12_Witness ==
  /\ backpressure.level = "high"
  /\ backpressure.interims_paused
  /\ Len(scheduler.q_interim) > 0
  /\ current_job["interim"] = NoJob
  /\ Len(scheduler.q_final) = 0
  /\ current_job["final"] # NoJob

\* ----------------------------------------------------------------- C13
\* C13: for every pair of queue depths update sets the level to Critical if
\* |final| >= final_crit or |interim| >= interim_crit, to High else if
\* |final| >= final_hi or |interim| >= interim_hi, to Normal otherwise, and
\* (cooldown, tail) to (base, base) at Normal, (base + 150, max(3.0 s,
\* base / 2)) at High and (base + 250, max(1.5 s, base / 4)) at Critical;
\* with the defaults 22 queued interims (and fewer than final_crit finals)
\* give High with cooldown >= 370 ms and tail <= 3.5 s, and 42 queued
\* interims give Critical with tail <= 1.75 s.
C13_LevelAndParameters ==
  LET f == depths.q_final
      i == depths.q_interim
      B == backpressure
  IN /\ B.level = IF f >= B.final_crit \/ i >= B.interim_crit
                  THEN "critical"
                  ELSE IF f >= B.final_hi \/ i >= B.interim_hi
                       THEN "high"
                       ELSE "normal"
     /\ B.level = "normal" =>
          /\ B.current_cooldown_ms = B.base_cooldown_ms
          /\ B.current_tail_ms = B.base_tail_ms
     /\ B.level = "high" =>
          /\ B.current_cooldown_ms = B.base_cooldown_ms + 150
          /\ B.current_tail_ms = Max(3000, B.base_tail_ms \div 2)
     /\ B.level = "critical" =>
          /\ B.current_cooldown_ms = B.base_cooldown_ms + 250
          /\ B.current_tail_ms = Max(1500, B.base_tail_ms \div 4)
     /\ (i = 22 /\ f < B.final_crit) =>
          /\ B.level = "high"
          /\ B.current_cooldown_ms >= 370
          /\ B.current_tail_ms <= 3500
     /\ i = 42 =>
          /\ B.level = "critical"
          /\ B.current_tail_ms <= 1750

\* update was called with 42 queued interims and no final waiting
C13_Witness ==
  /\ depths.q_interim = 42
  /\ depths.q_final = 0
  /\ backpressure.level = "critical"
  /\ backpressure.current_tail_ms = 1750

\* ----------------------------------------------------------------- C14
\* C14: after update interims_paused is false at Normal, equals
\* (|final| >= final_hi) at High and (|final| >= final_crit) at Critical; at
\* Critical with the default watermarks interims are paused iff |final| >= 12.
C14_PausedByFinalDepth ==
  LET f == depths.q_final
      B == backpressure
  IN /\ B.level = "normal" => ~B.interims_paused
     /\ B.level = "high" => (B.interims_paused <=> f >= B.final_hi)
     /\ B.level = "critical" => (B.interims_paused <=> f >= B.final_crit)
     /\ B.level = "critical" => (B.interims_paused <=> f >= 12)

\* Critical because of the interim queue alone, one final short of the
\* critical watermark: interims are not paused
C14_Witness ==
  /\ backpressure.level = "critical"
  /\ depths.q_final = 11
  /\ depths.q_interim >= 40
  /\ ~backpressure.interims_paused

\* ----------------------------------------------------------------- C15
\* C15: with the default configuration and the interim queue depth held
\* fixed, when the final queue depth grows (up to final_crit) the cooldown
\* produced by update does not decrease and the tail does not increase.
C15_MonotoneInFinalDepth ==
  [][(/\ depths'.q_interim = depths.q_interim
      /\ depths'.q_final >= depths.q_final
      /\ depths'.q_final <= backpressure.final_crit)
     => /\ backpressure'.current_cooldown_ms >= backpressure.current_cooldown_ms
        /\ backpressure'.current_tail_ms <= backpressure.current_tail_ms]_vars

\* the final queue has grown to final_crit with no interim queued: the
\* cooldown is above and the tail below their base values
C15_Witness ==
  /\ depths.q_final = backpressure.final_crit
  /\ depths.q_interim = 0
  /\ backpressure.current_cooldown_ms > backpressure.base_cooldown_ms
  /\ backpressure.current_tail_ms < backpressure.base_tail_ms

\* ----------------------------------------------------------------- C16
\* C16: get_burst_limits returns the configured final burst at every level
\* and an interim burst of base at Normal, max(1, base / 2) at High and
\* max(1, base / 3) at Critical.
C16_BurstByLevel ==
  LET lim == get_burst_limits(backpressure)
  IN /\ lim.f_final_burst = F_FINAL_BURST
     /\ lim.f_interim_burst =
          IF backpressure.level = "critical" THEN Max(1, F_INTERIM_BURST \div 3)
          ELSE IF backpressure.level = "high" THEN Max(1, F_INTERIM_BURST \div 2)
          ELSE F_INTERIM_BURST

\* C16 (amended): get_burst_limits returns the configured final burst at
\* every level, and an interim burst of 0 while interims_paused is true,
\* otherwise of base at Normal, max(1, base / 2) at High and max(1, base / 3)
\* at Critical; the monitor hands both to the scheduler.
C16_BurstByLevelUnlessPaused ==
  LET lim == get_burst_limits(backpressure)
  IN /\ lim.f_final_burst = F_FINAL_BURST
     /\ lim.f_interim_burst =
          IF backpressure.interims_paused THEN 0
          ELSE IF backpressure.level = "critical"
               THEN Max(1, F_INTERIM_BURST \div 3)
          ELSE IF backpressure.level = "high"
               THEN Max(1, F_INTERIM_BURST \div 2)
          ELSE F_INTERIM_BURST
     /\ scheduler.f_final_burst = lim.f_final_burst
     /\ scheduler.f_interim_burst = lim.f_interim_burst

\* High with interims paused: the interim burst handed to the scheduler is 0
C16_Witness ==
  /\ backpressure.level = "high"
  /\ backpressure.interims_paused
  /\ depths.q_final >= backpressure.final_hi
  /\ scheduler.f_interim_burst = 0
  /\ scheduler.f_final_burst = F_FINAL_BURST

\* ----------------------------------------------------------------- C17
\* C17: an interim result is not sent to the client when its text equals the
\* previously sent interim text of the connection and the interim cooldown
\* (interim_min_ms, the configured interim_cooldown_ms) has not elapsed since
\* that message was sent.
C17_NoRepeatedInterimWithinCooldown ==
  \A c \in Conns :
    \A k \in 2..Len(wire[c]) :
      ~(/\ wire[c][k].type = "interim"
        /\ wire[c][k - 1].type = "interim"
        /\ wire[c][k].text = wire[c][k - 1].text
        /\ (wire[c][k].sent_at - wire[c][k - 1].sent_at) * TickMs
             < backpressure.base_cooldown_ms)

\* ----------------------------------------------------------------- C18
\* C18: the stable_chars of every interim message is the length of the
\* longest common prefix of the connection's previous interim text (empty
\* before the first interim) and the new text.
C18_StableCharsIsCommonPrefix ==
  \A c \in Conns :
    \A k \in 1..Len(wire[c]) :
      (/\ wire[c][k].type = "interim"
       /\ k > 1 => wire[c][k - 1].type = "interim")
        => LET new == wire[c][k].text
               prev == IF k = 1 THEN <<>> ELSE wire[c][k - 1].text
               common == {n \in 1..Len(new) :
                            /\ n <= Len(prev)
                            /\ \A i \in 1..n : prev[i] = new[i]}
           IN wire[c][k].stable_chars = Cardinality(common)

\* ----------------------------------------------------------------- C19
\* C19: when the decoder raises for a job of a connection that is still
\* connected, an error message for the job is sent on its websocket, or the
\* task that sends it is created, in the step that handles the failure.
C19_DecodeErrorIsReported ==
  [][\A id \in 1..Len(created) :
       (/\ results[id] = NoResult
        /\ results'[id].status = "error"
        /\ created[id].conn_id \in websockets)
         => \/ \E i \in 1..Len(send_tasks') : send_tasks'[i].job_id = id
            \/ \E i \in 1..Len(wire'[created[id].conn_id]) :
                 /\ wire'[created[id].conn_id][i].type = "error"
                 /\ wire'[created[id].conn_id][i].job_id = id]_vars

\* ----------------------------------------------------------------- C20
\* C20: if the decode of a final failed, the next final enqueued for the
\* connection covers the audio window of the failed one again: it starts at
\* the commit point from which the failed final started.
C20_FailedFinalIsDecodedAgain ==
  [][\A id \in (Len(created) + 1)..Len(created') :
       created'[id].job_type = "final"
         => LET c == created'[id].conn_id
                earlier == {e \in 1..Len(created) :
                              /\ created[e].job_type = "final"
                              /\ created[e].conn_id = c}
            IN \A e \in earlier :
                 (/\ \A x \in earlier : x <= e
                  /\ results[e].status = "error")
                   => created'[id].audio.first <= created[e].audio.first]_vars

\* ----------------------------------------------------------------- C21
\* C21: a result delivered for a connection that has been removed is dropped
\* silently. Nothing is ever sent for a connection without a websocket; the
\* send task of such a result is discarded and changes nothing else; the
\* completion of a job of a removed connection frees the worker as any other
\* completion does; and removing a connection cancels none of its jobs: the
\* queues, the in-flight jobs and the pending send tasks stay as they are.
C21_ResultForRemovedConnectionIsDropped ==
  [][/\ \A c \in Conns : c \notin websockets => out'[c] = out[c]
     /\ (/\ send_tasks # <<>>
         /\ Len(send_tasks') < Len(send_tasks)
         /\ Head(send_tasks).conn_id \notin websockets)
          => /\ send_tasks' = Tail(send_tasks)
             /\ UNCHANGED <<scheduler, current_job, connections, websockets,
                            connection_throttles, out>>
     /\ (connections' # connections /\ connections' \subseteq connections)
          => UNCHANGED <<scheduler, current_job, send_tasks>>
     /\ \A w \in {"final", "interim"} :
          (/\ current_job[w] # NoJob
           /\ current_job[w].job_id \in completed' \ completed
           /\ current_job[w].conn_id \notin connections)
            => LET g == get_job_for_type(
                          mark_job_complete(scheduler, current_job[w]), w)
               IN /\ scheduler' = g.sched
                  /\ current_job' = [current_job EXCEPT ![w] = g.job]
                  /\ UNCHANGED <<connections, websockets, out>>]_vars

\* the successful result of a job of a removed connection waits to be sent,
\* another job of that connection is still queued or in flight, and another
\* connection is registered
C21_Witness ==
  /\ send_tasks # <<>>
  /\ Head(send_tasks).conn_id \notin websockets
  /\ Head(send_tasks).conn_id \notin connections
  /\ \E c \in connections : c # Head(send_tasks).conn_id
  /\ \/ \E w \in {"final", "interim"} :
          /\ current_job[w] # NoJob
          /\ current_job[w].conn_id = Head(send_tasks).conn_id
     \/ \E i \in 1..Len(scheduler.q_final) :
          scheduler.q_final[i].conn_id = Head(send_tasks).conn_id
     \/ \E i \in 1..Len(scheduler.q_interim) :
          scheduler.q_interim[i].conn_id = Head(send_tasks).conn_id

\* ------------------------------------------------- C23, C24: commit point
\* the connection's last commit point as the claims define it: 0 at the
\* start of the session, later the cursor at which its last final was cut
Committed(c) ==
  LET finals == {i \in 1..Len(created) :
                   created[i].job_type = "final" /\ created[i].conn_id = c}
  IN IF finals = {} THEN 0
     ELSE LET last == CHOOSE i \in finals : \A j \in finals : j <= i
          IN created[last].audio.first + created[last].audio.len

\* ----------------------------------------------------------------- C23
\* C23: whenever a connection has received audio since its last commit
\* point, a stop control message handled now enqueues one final job for the
\* connection, without any end of speech, and leaves the session registered
\* with its ring buffer as it was.
C23_StopForcesFinal ==
  \A c \in connections :
    conn_state[c].ring_buffer.total_samples_written > Committed(c)
      => LET Y == finalize_utterance(Session(c), c, now)
         IN /\ Len(Y.created) = Len(created) + 1
            /\ Y.created[Len(Y.created)].job_type = "final"
            /\ Y.created[Len(Y.created)].conn_id = c
            /\ Y.scheduler.q_final =
                 Append(scheduler.q_final, Y.created[Len(Y.created)])
            /\ Y.cs.ring_buffer = conn_state[c].ring_buffer

\* ----------------------------------------------------------------- C24
\* C24: the final enqueued when _handle_audio detects the end of an utterance
\* carries exactly the samples from the connection's last commit point to
\* the cursor, and the step sets the ring buffer's commit point to the cursor.
C24_FinalCarriesAudioSinceCommit ==
  [][\A id \in (Len(created) + 1)..Len(created') :
       LET c == created'[id].conn_id
       IN (/\ created'[id].job_type = "final"
           /\ conn_state'[c].ring_buffer.total_samples_written
                > conn_state[c].ring_buffer.total_samples_written)
            => /\ created'[id].audio.first = Committed(c)
               /\ created'[id].audio.first + created'[id].audio.len
                    = conn_state'[c].ring_buffer.total_samples_written
               /\ conn_state'[c].ring_buffer.utterance_start_pos
                    = conn_state'[c].ring_buffer.write_pos]_vars

\* ----------------------------------------------------------------- C25
\* C25: an interim job is enqueued for a connection only while it is
\* listening, that is while the silence tracker holds a detected speech start
\* whose utterance has not ended: never in a step that leaves the connection
\* without a started utterance, such as the step that ends the utterance or
\* the silence that follows it.
C25_InterimOnlyWhileListening ==
  [][\A id \in (Len(created) + 1)..Len(created') :
       created'[id].job_type = "interim"
         => silence_trackers'[created'[id].conn_id].speech_started]_vars

\* ----------------------------------------------------------------- C22
\* C22: once the peer of a connection has gone away, whichever way the
\* transport reports it (receive() raises WebSocketDisconnect, or receive()
\* returns a disconnect message and raises on every later call), the
\* handler's loop eventually ends and the connection is removed.
C22_DisconnectLeadsToRemoval ==
  \A c \in Conns :
    (transport[c] \in {"raises_disconnect", "disconnect_message"})
      ~> (c \notin connections)

\* ----------------------------------------------------------------- C26
\* C26: for the input 200 ms speech, 300 ms silence, 200 ms speech, 600 ms
\* silence exactly one end of utterance occurs, in the second silence
\* window: at no time has more than one final been enqueued for the
\* connection, a final is cut only at a cursor inside the second silence
\* window, and once the whole signal has been received there is one final.
C26_OneEndOfUtteranceInS4 ==
  \A c \in connections :
    LET finals == {i \in 1..Len(created) :
                     created[i].job_type = "final" /\ created[i].conn_id = c}
    IN /\ Cardinality(finals) <= 1
       /\ \A i \in finals :
            created[i].audio.first + created[i].audio.len > SegmentEnd(3)
       /\ conn_state[c].ring_buffer.total_samples_written = SignalSamples
            => Cardinality(finals) = 1

\* ----------------------------------------------------------------- C27
\* the samples of speech among the first i samples of the signal
SpeechBefore(i) ==
  LET part(k) ==
        IF ~S4[k].speech \/ i <= SegmentEnd(k - 1) THEN 0
        ELSE IF i >= SegmentEnd(k) THEN SegmentEnd(k) - SegmentEnd(k - 1)
        ELSE i - SegmentEnd(k - 1)
  IN part(1) + part(2) + part(3) + part(4)

\* C27: a connection is in an utterance only once the speech it has received
\* has reached the start trigger of 60 ms; a single speech chunk shorter
\* than that does not start an utterance.
C27_UtteranceStartsAfterStartTrigger ==
  \A c \in connections :
    conn_state[c].in_utterance
      => SpeechBefore(conn_state[c].ring_buffer.total_samples_written)
           >= (SAMPLE_RATE * 60) \div 1000

\* ----------------------------------------------------------------- C28
\* C28: audio received before the start control message of a connection is
\* rejected: as long as no start message has been handled, nothing has been
\* appended to the connection's ring buffer and no job has been enqueued
\* for it.
C28_NoAudioBeforeStart ==
  \A c \in connections :
    c \notin started
      => /\ conn_state[c].ring_buffer.total_samples_written = 0
         /\ \A i \in 1..Len(created) : created[i].conn_id # c

\* ----------------------------------------------------------------- C29
\* C29: a binary message of odd byte length is dropped: the step that
\* handles it leaves the ring buffer, the connection's utterance state, the
\* silence tracker, the queues and the throttle unchanged, sends one error
\* message on the websocket, and leaves the session registered with its
\* transport open, so that later messages are handled.
C29_OddChunkIsDropped ==
  [][\A c \in Conns :
       \A num_bytes \in ChunkBytes :
         (num_bytes % 2 = 1 /\ receive_bytes(c, num_bytes))
           => /\ UNCHANGED <<conn_state, silence_trackers, scheduler,
                             connection_throttles, created, coalesced>>
              /\ Len(wire'[c]) = Len(wire[c]) + 1
              /\ wire'[c][Len(wire'[c])].type = "error"
              /\ c \in connections'
              /\ transport'[c] = "open"]_vars

\* an error message was sent for a malformed chunk, and audio that arrived
\* later has been appended and has produced a job
C29_Witness ==
  \E c \in connections :
    \E k \in 1..Len(wire[c]) :
      /\ wire[c][k].type = "error"
      /\ conn_state[c].ring_buffer.total_samples_written > 0
      /\ \E i \in 1..Len(created) :
           /\ created[i].conn_id = c
           /\ created[i].created_at > wire[c][k].sent_at

\* ----------------------------------------------------------------- C30
\* C30: while interims are not paused and every decode terminates, a
\* connection that has an interim waiting in the queue is eventually served:
\* one of its interims is dispatched to the interim worker, however often it
\* and the other connections submit again.
C30_PendingInterimEventuallyDispatched ==
  \A c \in Conns :
    (\E i \in 1..Len(scheduler.q_interim) : scheduler.q_interim[i].conn_id = c)
      ~> (current_job["interim"].conn_id = c)

RunningDecodes(w) ==
  {dispatched[w][i] : i \in 1..Len(dispatched[w])} \ completed

\* C32: at any time at most one decode runs on the interim model and at most
\* one on the final model (a decode of each may run at the same time: the
\* witness).
C32_OneDecodePerModel ==
  \A w \in {"final", "interim"} : Cardinality(RunningDecodes(w)) <= 1

\* an interim decode and a final decode running at the same time
C32_Witness ==
  /\ Cardinality(RunningDecodes("final")) = 1
  /\ Cardinality(RunningDecodes("interim")) = 1

\* ----------------------------------------------------------------- C33
\* the durations asked of get_tail, in milliseconds: none, less than a
\* sample, parts of the buffer, the whole buffer and more than it holds
TailDurations == {0, 250, 500, 750, 1000, 1500, 2000, 3000}

\* the last n samples that append has taken, according to the history log
MostRecent(log, n) ==
  SubSeq(log.appended, Len(log.appended) - n + 1, Len(log.appended))

\* C33: after any sequence of appends, get_tail(d) returns exactly the most
\* recent min(floor(sample_rate * d), total_samples_written, max_samples)
\* samples in the order of their appending, also when they lie around the
\* end of the buffer, and no sample older than cursor - max_samples.
C33_TailIsMostRecentSamples ==
  \A duration_ms \in TailDurations :
    LET tail == get_tail_samples(ring, duration_ms)
        n == Min3((ring.sample_rate * duration_ms) \div 1000,
                  ring.total_samples_written, ring.max_samples)
    IN /\ tail = MostRecent(ring_log, n)
       /\ \A k \in 1..Len(tail) :
            \E i \in 1..Len(ring_log.appended) :
              /\ ring_log.appended[i] = tail[k]
              /\ i > Len(ring_log.appended) - ring.max_samples

\* ----------------------------------------------------------------- C34
\* the samples the buffer rb holds, oldest first
HeldSamples(rb) ==
  IF rb.total_samples_written >= rb.max_samples
  THEN slice(rb.buffer, rb.write_pos, rb.max_samples)
         \o slice(rb.buffer, 0, rb.write_pos)
  ELSE slice(rb.buffer, 0, rb.write_pos)

\* C34: append takes a chunk of any length N, also one longer than the
\* buffer: total_samples_written grows by exactly N, and afterwards the
\* buffer holds the most recent min(total_samples_written, max_samples)
\* samples handed to it.
C34_AppendTakesAnyLength ==
  [][\A num_samples \in 0..MaxChunkLen :
       append_chunk(num_samples)
       => /\ ring'.total_samples_written =
               ring.total_samples_written + num_samples
          /\ ring_log'.appended =
               ring_log.appended
                 \o [k \in 1..num_samples |-> ring_log.handed + k]
          /\ HeldSamples(ring') =
               MostRecent(ring_log',
                          IF ring'.total_samples_written <= ring'.max_samples
                          THEN ring'.total_samples_written
                          ELSE ring'.max_samples)
    ]_vars

\* ----------------------------------------------------------------- C35
\* C35: get_utterance returns exactly the samples appended since the last
\* mark_utterance_start (since construction, before the first), in order;
\* when max_samples or more have been appended since the mark, the most
\* recent max_samples of them.
C35_UtteranceIsSamplesSinceMark ==
  LET since_mark == Len(ring_log.appended) - ring_log.mark
  IN get_utterance_samples(ring) =
       MostRecent(ring_log,
                  IF since_mark <= ring.max_samples
                  THEN since_mark ELSE ring.max_samples)

\* ----------------------------------------------------------------- C36
\* C36: the throttle of a registered connection changes only in a step in
\* which the scheduler accepts an interim of that connection (an attempt that
\* is throttled or rejected leaves it as it was); the attempt has then
\* passed the throttle, the time since last_interim_time being at least
\* max(base + jitter, current_cooldown_ms), and last_interim_time becomes
\* the time of the attempt.
C36_ThrottleMarkedOnlyOnAcceptedInterim ==
  [][\A c \in Conns :
       (/\ c \in connections
        /\ c \in connections'
        /\ connection_throttles'[c] # connection_throttles[c])
       => /\ \E i \in (Len(created) + 1)..Len(created') :
               /\ created'[i].job_type = "interim"
               /\ created'[i].conn_id = c
               /\ Contains(scheduler'.q_interim, created'[i])
          /\ (now - connection_throttles[c].last_interim_time) * TickMs
               >= Max(connection_throttles[c].effective_cooldown_ms,
                      backpressure.current_cooldown_ms)
          /\ connection_throttles'[c] =
               [connection_throttles[c] EXCEPT !.last_interim_time = now]
    ]_vars

\* a session in an utterance that has received more audio messages since
\* the start of the utterance than it has had interims accepted (an attempt
\* was throttled or rejected), with the throttle at the time of the last
\* accepted interim
C36_Witness ==
  \E c \in connections :
    /\ conn_state[c].in_utterance
    /\ \E i \in 1..Len(created) :
         /\ created[i].job_type = "interim"
         /\ created[i].conn_id = c
         /\ created[i].created_at = connection_throttles[c].last_interim_time
         /\ created[i].audio.len < conn_state[c].ring_buffer.total_samples_written
                                    - created[i].audio.first
         /\ \A j \in (i + 1)..Len(created) : created[j].job_type # "interim"

\* ----------------------------------------------------------------- C37
\* C37: for every allowed base tail (1.0 to 30.0 seconds) the tail window
\* set by update is at no level longer than the base tail.
C37_TailNeverExceedsBase ==
  backpressure.current_tail_ms <= backpressure.base_tail_ms

\* ----------------------------------------------------------------- C40
\* C40: pausing is monotone in the load: when update(f, i) has set
\* interims_paused, update(f2, i2) with f2 >= f and i2 >= i sets it too.
C40_PauseMonotoneInLoad ==
  backpressure.interims_paused
  => \A f2 \in depths.q_final..MaxFinalDepth :
       \A i2 \in depths.q_interim..MaxInterimDepth :
         update(backpressure, f2, i2).interims_paused

\* ----------------------------------------------------------------- C38
\* C38: in every reachable state the counters of the scheduler balance with
\* its queues: total_enqueued_interims - total_coalesced -
\* total_dequeued_interims is the length of the interim queue, and
\* total_enqueued_finals - total_dequeued_finals the length of the final
\* queue.
C38_StatsBalanceWithQueues ==
  /\ scheduler.stats.total_enqueued_interims - scheduler.stats.total_coalesced
       - scheduler.stats.total_dequeued_interims = Len(scheduler.q_interim)
  /\ scheduler.stats.total_enqueued_finals
       - scheduler.stats.total_dequeued_finals = Len(scheduler.q_final)

\* an interim has been coalesced away and one dequeued, and a final is
\* waiting
C38_Witness ==
  /\ scheduler.stats.total_coalesced >= 1
  /\ scheduler.stats.total_dequeued_interims >= 1
  /\ scheduler.stats.total_enqueued_finals >= 1
  /\ Len(scheduler.q_final) >= 1

\* ----------------------------------------------------------------- C39
\* C39: no sample of a connection is in two final jobs: a final enqueued
\* after another final of the same connection (by the end of speech or by a
\* stop message, in any order) begins where the earlier one ended or later.
C39_FinalsShareNoSample ==
  \A i \in 1..Len(created) :
    \A j \in (i + 1)..Len(created) :
      (/\ created[i].job_type = "final"
       /\ created[j].job_type = "final"
       /\ created[i].conn_id = created[j].conn_id)
      => created[j].audio.first >= created[i].audio.first + created[i].audio.len

====
